---------------------------- MODULE Spec2Model ----------------------------
(***************************************************************************)
(* Local bitmap manager of the viewer (indra/newview/lllocalbitmaps.cpp):  *)
(* units that watch image files on disk, the heartbeat timer that polls    *)
(* them, and the replacement of texture ids on faces, sculpts and avatar   *)
(* clothing layers.                                                        *)
(*                                                                         *)
(* The manager's operations that loop over files or units (addUnit,        *)
(* doUpdates) are modelled one loop iteration per step, with pc holding    *)
(* the position; delUnit and the changes of the file system are single     *)
(* steps.                                                                  *)
(***************************************************************************)
EXTENDS Integers, Sequences, FiniteSets, TLC

(***************************************************************************)
(* Bounds of the model.                                                    *)
(***************************************************************************)
\* ids LLUUID::generate hands out (tracking ids and world ids together)
MaxIds == 4
\* SpecWorld: successful refreshes of the two units it starts with
MaxRefresh == 2
\* distinct modification times a watched file can show
MaxTime == 2
\* files one file-picker selection can return
MaxPick == 2
\* SpecPropagate: local texture ids the consumers and the calls can hold
MaxLocal == 2

(***************************************************************************)
(* Program constants.                                                      *)
(***************************************************************************)
LL_LOCAL_UPDATE_RETRIES == 5
LL_LOCAL_REPLACE_ON_DEL == TRUE

\* LLUUID::null and the two placeholder texture ids; generated ids are 1, 2, ...
LLUUID_null == 0
IMG_DEFAULT == -1
IMG_DEFAULT_AVATAR == -2

LS_ON == "LS_ON"
LS_BROKEN == "LS_BROKEN"

\* mExtension before the constructor assigns it (it returns early on an
\* unknown extension and nothing reads the member afterwards)
ET_UNSET == "ET_UNSET"

\* the case labels of decodeBitmap's switch, in source order
ExtensionOrder == <<"ET_IMG_BMP", "ET_IMG_TGA", "ET_IMG_JPG", "ET_IMG_PNG">>

\* the wearable categories replaceIDs walks, in call order
WearableOrder ==
  << "WT_ALPHA", "WT_EYES", "WT_GLOVES", "WT_JACKET", "WT_PANTS", "WT_SHIRT",
     "WT_SHOES", "WT_SKIN", "WT_SKIRT", "WT_SOCKS", "WT_TATTOO",
     "WT_UNDERPANTS", "WT_UNDERSHIRT" >>

WearableTypes == { WearableOrder[i] : i \in 1..Len(WearableOrder) }

TEX_NUM_INDICES == "TEX_NUM_INDICES"

(***************************************************************************)
(* The world the manager runs in.  Its shape is fixed; the texture ids its *)
(* consumers hold are state.                                               *)
(***************************************************************************)
\* a file name: the stem and the extension gDirUtilp->getExtension returns
FileBmp == [stem |-> "a", exten |-> "bmp"]
FileGif == [stem |-> "c", exten |-> "gif"]
FileGone == [stem |-> "m", exten |-> "png"]
FileNames == {FileBmp, FileGif, FileGone}
\* the files whose content and presence change while the viewer runs
WatchedFiles == {FileBmp}

\* what a file holds: an image of one of the four formats, or nothing decodable
FileKinds == {"bmp", "png", "bad"}

Times == 1..MaxTime

\* gObjectList: a two-face object with a drawable, an empty list entry, and
\* a sculpted object that has no drawable
ObjectList ==
  << [present |-> TRUE,  drawable |-> TRUE,  numFaces |-> 2, sculpted |-> FALSE],
     [present |-> FALSE, drawable |-> FALSE, numFaces |-> 0, sculpted |-> FALSE],
     [present |-> TRUE,  drawable |-> FALSE, numFaces |-> 1, sculpted |-> TRUE] >>

ObjectIds == 1..Len(ObjectList)

\* gAgentWearables: per category the worn instances; each instance lists the
\* baked region of each of its local texture slots.  The shirt's first slot
\* sits on a region getTexIndex has no mapping for; of the two pants entries
\* the first is one getWearable returns NULL for.
WornList(type) ==
  IF type = "WT_SHIRT"
    THEN << [null |-> FALSE, slots |-> <<"BAKED_LOWER", "BAKED_UPPER">>] >>
  ELSE IF type = "WT_PANTS"
    THEN << [null |-> TRUE, slots |-> << >>],
            [null |-> FALSE, slots |-> <<"BAKED_LOWER">>] >>
  ELSE << >>

\* the consumers a user can point at a local bitmap
FaceRefs == { <<"face", o, f>> : o \in {1}, f \in 1..2 }
SculptRefs == { <<"sculpt", 3, 0>> }
LayerRefs == { <<"WT_SHIRT", 1, s>> : s \in 1..2 }

(***************************************************************************)
(* Pure helpers.                                                           *)
(***************************************************************************)
\* LLWearableType x EBakedTextureIndex -> ETextureIndex
getTexIndex(type, baked_texind) ==
  CASE type = "WT_ALPHA" ->
         ( CASE baked_texind = "BAKED_EYES"  -> "TEX_EYES_ALPHA"
             [] baked_texind = "BAKED_HAIR"  -> "TEX_HAIR_ALPHA"
             [] baked_texind = "BAKED_HEAD"  -> "TEX_HEAD_ALPHA"
             [] baked_texind = "BAKED_LOWER" -> "TEX_LOWER_ALPHA"
             [] baked_texind = "BAKED_UPPER" -> "TEX_UPPER_ALPHA"
             [] OTHER -> TEX_NUM_INDICES )
    [] type = "WT_EYES" ->
         IF baked_texind = "BAKED_EYES" THEN "TEX_EYES_IRIS" ELSE TEX_NUM_INDICES
    [] type = "WT_GLOVES" ->
         IF baked_texind = "BAKED_UPPER" THEN "TEX_UPPER_GLOVES" ELSE TEX_NUM_INDICES
    [] type = "WT_JACKET" ->
         IF baked_texind = "BAKED_LOWER" THEN "TEX_LOWER_JACKET"
         ELSE IF baked_texind = "BAKED_UPPER" THEN "TEX_UPPER_JACKET"
         ELSE TEX_NUM_INDICES
    [] type = "WT_PANTS" ->
         IF baked_texind = "BAKED_LOWER" THEN "TEX_LOWER_PANTS" ELSE TEX_NUM_INDICES
    [] type = "WT_SHIRT" ->
         IF baked_texind = "BAKED_UPPER" THEN "TEX_UPPER_SHIRT" ELSE TEX_NUM_INDICES
    [] type = "WT_SHOES" ->
         IF baked_texind = "BAKED_LOWER" THEN "TEX_LOWER_SHOES" ELSE TEX_NUM_INDICES
    [] type = "WT_SKIN" ->
         ( CASE baked_texind = "BAKED_HEAD"  -> "TEX_HEAD_BODYPAINT"
             [] baked_texind = "BAKED_LOWER" -> "TEX_LOWER_BODYPAINT"
             [] baked_texind = "BAKED_UPPER" -> "TEX_UPPER_BODYPAINT"
             [] OTHER -> TEX_NUM_INDICES )
    [] type = "WT_SKIRT" ->
         IF baked_texind = "BAKED_SKIRT" THEN "TEX_SKIRT" ELSE TEX_NUM_INDICES
    [] type = "WT_SOCKS" ->
         IF baked_texind = "BAKED_LOWER" THEN "TEX_LOWER_SOCKS" ELSE TEX_NUM_INDICES
    [] type = "WT_TATTOO" ->
         ( CASE baked_texind = "BAKED_HEAD"  -> "TEX_HEAD_TATTOO"
             [] baked_texind = "BAKED_LOWER" -> "TEX_LOWER_TATTOO"
             [] baked_texind = "BAKED_UPPER" -> "TEX_UPPER_TATTOO"
             [] OTHER -> TEX_NUM_INDICES )
    [] type = "WT_UNDERPANTS" ->
         IF baked_texind = "BAKED_LOWER" THEN "TEX_LOWER_UNDERPANTS" ELSE TEX_NUM_INDICES
    [] type = "WT_UNDERSHIRT" ->
         IF baked_texind = "BAKED_UPPER" THEN "TEX_UPPER_UNDERSHIRT" ELSE TEX_NUM_INDICES
    [] OTHER -> TEX_NUM_INDICES


\* asctime(localtime(&temp_time)): the text of a modification time.  Times
\* are 1, 2, ...; 0 stands for the integer LLSD mLastModified starts as,
\* whose asString() is no output of asctime.
asctime(temp_time) == temp_time

\* one raster decoder: load(mFilename) && decode(rawimg) on a file holding
\* an image of the given kind (a "tga" kind has 3 or 4 components)
DecoderAccepts(format, kind) ==
  CASE format = "ET_IMG_BMP" -> kind = "bmp"
    [] format = "ET_IMG_TGA" -> kind = "tga"
    [] format = "ET_IMG_JPG" -> kind = "jpg"
    [] format = "ET_IMG_PNG" -> kind = "png"
    [] OTHER -> FALSE

\* position of a format's case label in the switch
CaseIndex(format) == CHOOSE i \in 1..Len(ExtensionOrder) : ExtensionOrder[i] = format

\* LLLocalBitmap::decodeBitmap: the switch enters at the unit's format; a
\* case whose decoder fails has no break and runs on into the next one
decodeBitmap(mExtension, kind) ==
  /\ mExtension \in { ExtensionOrder[i] : i \in 1..Len(ExtensionOrder) }
  /\ \E i \in CaseIndex(mExtension)..Len(ExtensionOrder) :
        DecoderAccepts(ExtensionOrder[i], kind)

\* the constructor's extension chain
ExtensionOf(temp_exten) ==
  CASE temp_exten = "bmp" -> "ET_IMG_BMP"
    [] temp_exten = "tga" -> "ET_IMG_TGA"
    [] temp_exten = "jpg" \/ temp_exten = "jpeg" -> "ET_IMG_JPG"
    [] temp_exten = "png" -> "ET_IMG_PNG"
    [] OTHER -> ET_UNSET

(***************************************************************************)
(* State.                                                                  *)
(***************************************************************************)
VARIABLES
  files,          \* the file system: per file name, presence, mtime, content
  sBitmapList,    \* LLLocalBitmapMgr::sBitmapList, the units in list order
  sTimerStarted,  \* sTimer.mEventTimer.getStarted()
  sNeedsRebake,   \* LLLocalBitmapMgr::sNeedsRebake
  gTextureList,   \* ids of the textures this subsystem has in gTextureList
  faceTex,        \* per object, per face: id of the face's texture
  sculptID,       \* per object: id of its sculpt texture
  layerID,        \* per category, worn instance, slot: id of the local texture
  nextID,         \* the next id LLUUID::generate gives out
  pc,             \* "idle", "add" (inside addUnit), "upd" (inside doUpdates)
  iter,           \* doUpdates: position of iter in sBitmapList (1 outside it)
  picked,         \* addUnit: the picker's files not yet handled
  unit,           \* addUnit: <<unit>> between new LLLocalBitmap and push/delete
  called,         \* <<unit>>: the unit as the running operation's last
                  \* updateSelf call found it
  path,           \* the return statement that call (or the constructor) took
  ret,            \* what that call returned
  teUpdates,      \* per object: sendTEUpdate calls made by the last step
  freed,          \* ids the last step took out of gTextureList
  bakes,          \* forceBakeAllTextures calls since the operation began
  layerSet,       \* a layer slot was retargeted since the operation began
  parser          \* the LLUriParser object, if one has been constructed

vars == << files, sBitmapList, sTimerStarted, sNeedsRebake, gTextureList,
           faceTex, sculptID, layerID, nextID, pc, iter,
           picked, unit, called, path, ret, teUpdates, freed, bakes,
           layerSet, parser >>

\* no LLUriParser has been constructed
NoParser == << >>

NoUpdates == [o \in ObjectIds |-> 0]

\* the globals the unit's methods read and write, as one value
Heap ==
  [ tex |-> gTextureList, faceTex |-> faceTex, sculptID |-> sculptID,
    layerID |-> layerID, needsRebake |-> sNeedsRebake, nextID |-> nextID,
    sent |-> NoUpdates, freed |-> {}, bakes |-> bakes, layerSet |-> layerSet ]

\* the same with the per-operation records cleared (an operation begins)
FreshHeap == [Heap EXCEPT !.bakes = 0, !.layerSet = FALSE]

SetHeap(h) ==
  /\ gTextureList' = h.tex
  /\ faceTex' = h.faceTex
  /\ sculptID' = h.sculptID
  /\ layerID' = h.layerID
  /\ sNeedsRebake' = h.needsRebake
  /\ nextID' = h.nextID
  /\ teUpdates' = h.sent
  /\ freed' = h.freed
  /\ bakes' = h.bakes
  /\ layerSet' = h.layerSet

(***************************************************************************)
(* LLLocalBitmap: the replacement of ids.                                  *)
(***************************************************************************)
\* face_iter's face of object_iter exists, has a texture, and it is old_id
FaceHit(h, o, f, old_id) ==
  /\ ObjectList[o].present
  /\ ObjectList[o].drawable
  /\ f <= ObjectList[o].numFaces
  /\ h.faceTex[o][f] = old_id

\* faulty variant of TEUpdatesFor: one sendTEUpdate per replaced face
TEUpdatesPerFace(h, o, old_id) ==
  Cardinality({ f \in 1..Len(h.faceTex[o]) : FaceHit(h, o, f, old_id) })

\* sendTEUpdate calls updateUserPrims makes for one object
TEUpdatesFor(h, o, old_id) ==
  IF \E f \in 1..Len(h.faceTex[o]) : FaceHit(h, o, f, old_id) THEN 1 ELSE 0

updateUserPrims(h, old_id, new_id) ==
  [h EXCEPT
     !.faceTex = [o \in ObjectIds |->
                    [f \in 1..Len(h.faceTex[o]) |->
                       IF FaceHit(h, o, f, old_id) THEN new_id ELSE h.faceTex[o][f]]],
     !.sent = [o \in ObjectIds |-> h.sent[o] + TEUpdatesFor(h, o, old_id)]]

\* faulty variant of updateUserSculpts: the sculpts are not looked at
updateUserSculpts_None(h, old_id, new_id) == h

\* faulty variant of updateUserSculpts: the sculpt id is not compared
updateUserSculpts_AnyId(h, old_id, new_id) ==
  [h EXCEPT
     !.sculptID = [o \in ObjectIds |->
                     IF /\ ObjectList[o].present
                        /\ ObjectList[o].sculpted
                       THEN new_id ELSE h.sculptID[o]]]

updateUserSculpts(h, old_id, new_id) ==
  [h EXCEPT
     !.sculptID = [o \in ObjectIds |->
                     IF /\ ObjectList[o].present
                        /\ ObjectList[o].sculpted
                        /\ h.sculptID[o] = old_id
                       THEN new_id ELSE h.sculptID[o]]]

\* setLocalTexture + wearableUpdated + setNeedsRebake on one slot
SetLayer(h, type, wi, si, new_id) ==
  [h EXCEPT !.layerID[type][wi][si] = new_id,
            !.needsRebake = TRUE,
            !.layerSet = TRUE]

\* the two nested loops of updateUserLayers from wearable wi, slot si on;
\* both return statements leave the whole function
RECURSIVE LayerWalk(_, _, _, _, _, _)
LayerWalk(h, old_id, new_id, type, wi, si) ==
  IF wi > Len(WornList(type)) THEN h
  ELSE IF WornList(type)[wi].null THEN h
  ELSE IF si > Len(WornList(type)[wi].slots) THEN LayerWalk(h, old_id, new_id, type, wi + 1, 1)
  ELSE IF h.layerID[type][wi][si] # old_id THEN LayerWalk(h, old_id, new_id, type, wi, si + 1)
  ELSE IF getTexIndex(type, WornList(type)[wi].slots[si]) = TEX_NUM_INDICES THEN h
  ELSE LayerWalk(SetLayer(h, type, wi, si, new_id), old_id, new_id, type, wi, si + 1)

updateUserLayers(h, old_id, new_id, type) == LayerWalk(h, old_id, new_id, type, 1, 1)

\* faulty variant of LayersFrom: a category with a null wearable is the last
\* one walked
RECURSIVE LayersFrom_StopsAtNull(_, _, _, _)
LayersFrom_StopsAtNull(h, old_id, new_id, k) ==
  IF k > Len(WearableOrder) THEN h
  ELSE IF \E wi \in 1..Len(WornList(WearableOrder[k])) : WornList(WearableOrder[k])[wi].null
    THEN updateUserLayers(h, old_id, new_id, WearableOrder[k])
  ELSE LayersFrom_StopsAtNull(updateUserLayers(h, old_id, new_id, WearableOrder[k]),
                              old_id, new_id, k + 1)

\* the thirteen updateUserLayers calls of replaceIDs, from the k-th on
RECURSIVE LayersFrom(_, _, _, _)
LayersFrom(h, old_id, new_id, k) ==
  IF k > Len(WearableOrder) THEN h
  ELSE LayersFrom(updateUserLayers(h, old_id, new_id, WearableOrder[k]), old_id, new_id, k + 1)

\* what replaceIDs hands to updateUserLayers for new_id
LayerIdFor(new_id) == IF new_id = IMG_DEFAULT THEN IMG_DEFAULT_AVATAR ELSE new_id

\* faulty variant of replaceIDs: the layers get new_id as it comes
replaceIDs_SameForLayers(h, old_id, new_id) ==
  IF old_id = new_id THEN h
  ELSE LET h1 == updateUserSculpts(updateUserPrims(h, old_id, new_id), old_id, new_id)
       IN LayersFrom(h1, old_id, new_id, 1)

\* faulty variant of replaceIDs: equal ids are not turned away
replaceIDs_NoGuard(h, old_id, new_id) ==
  LET h1 == updateUserSculpts(updateUserPrims(h, old_id, new_id), old_id, new_id)
      layer_id == IF new_id = IMG_DEFAULT THEN IMG_DEFAULT_AVATAR ELSE new_id
  IN LayersFrom(h1, old_id, layer_id, 1)

replaceIDs(h, old_id, new_id) ==
  IF old_id = new_id THEN h
  ELSE LET h1 == updateUserSculpts(updateUserPrims(h, old_id, new_id), old_id, new_id)
           layer_id == IF new_id = IMG_DEFAULT THEN IMG_DEFAULT_AVATAR ELSE new_id
       IN LayersFrom(h1, old_id, layer_id, 1)

\* faulty variant of doRebake: the flag stays up after the bake
doRebake_KeepsFlag(h) ==
  IF h.needsRebake THEN [h EXCEPT !.bakes = @ + 1] ELSE h

\* faulty variant of doRebake: bakes whether or not the flag is set
doRebake_Always(h) == [h EXCEPT !.bakes = @ + 1, !.needsRebake = FALSE]

doRebake(h) ==
  IF h.needsRebake
    THEN [h EXCEPT !.bakes = @ + 1, !.needsRebake = FALSE]
    ELSE h


(***************************************************************************)
(* LLLocalBitmap: construction, update cycle, destruction.                 *)
(***************************************************************************)
\* updateSelf reaches the decode and the decode succeeds
DecodeSucceeds(u, fs) ==
  /\ u.mLinkStatus = LS_ON
  /\ fs[u.mFilename].exists
  /\ u.mLastModified # asctime(fs[u.mFilename].mtime)
  /\ decodeBitmap(u.mExtension, fs[u.mFilename].kind)

\* updateSelf reaches the decode and the decode fails
DecodeFails(u, fs) ==
  /\ u.mLinkStatus = LS_ON
  /\ fs[u.mFilename].exists
  /\ u.mLastModified # asctime(fs[u.mFilename].mtime)
  /\ ~decodeBitmap(u.mExtension, fs[u.mFilename].kind)

\* gTextureList.deleteImage(gTextureList.findImage(id))
deleteImage(h, id) ==
  IF id \in h.tex
    THEN [h EXCEPT !.tex = @ \ {id}, !.freed = @ \cup {id}]
    ELSE h

\* faulty variant of UpdateDecoded: a decoded image gives the retries back
UpdateDecoded_RestoresRetries(h, u, first_update, new_last_modified) ==
  LET old_id == IF ~first_update /\ u.mWorldID # LLUUID_null THEN u.mWorldID ELSE LLUUID_null
      new_world == h.nextID
      h1 == [h EXCEPT !.nextID = @ + 1, !.tex = @ \cup {new_world}]
      u1 == [u EXCEPT !.mWorldID = new_world, !.mLastModified = new_last_modified,
                      !.mUpdateRetries = LL_LOCAL_UPDATE_RETRIES]
      h2 == IF first_update THEN h1
            ELSE deleteImage(replaceIDs(h1, old_id, new_world), old_id)
  IN [h |-> h2, u |-> u1, ret |-> TRUE, path |-> "decoded"]

\* faulty variant of UpdateDecoded: the old texture stays in gTextureList
UpdateDecoded_KeepsOld(h, u, first_update, new_last_modified) ==
  LET old_id == IF ~first_update /\ u.mWorldID # LLUUID_null THEN u.mWorldID ELSE LLUUID_null
      new_world == h.nextID
      h1 == [h EXCEPT !.nextID = @ + 1, !.tex = @ \cup {new_world}]
      u1 == [u EXCEPT !.mWorldID = new_world, !.mLastModified = new_last_modified]
      h2 == IF first_update THEN h1 ELSE replaceIDs(h1, old_id, new_world)
  IN [h |-> h2, u |-> u1, ret |-> TRUE, path |-> "decoded"]

\* faulty variant of UpdateDecoded: a unit that has an id keeps it
UpdateDecoded_KeepsId(h, u, first_update, new_last_modified) ==
  LET new_world == IF u.mWorldID # LLUUID_null THEN u.mWorldID ELSE h.nextID
      h1 == [h EXCEPT !.nextID = @ + 1, !.tex = @ \cup {new_world}]
      u1 == [u EXCEPT !.mWorldID = new_world, !.mLastModified = new_last_modified]
  IN [h |-> h1, u |-> u1, ret |-> TRUE, path |-> "decoded"]

\* the branch of updateSelf after a successful decode
UpdateDecoded(h, u, first_update, new_last_modified) ==
  LET old_id == IF ~first_update /\ u.mWorldID # LLUUID_null THEN u.mWorldID ELSE LLUUID_null
      new_world == h.nextID
      h1 == [h EXCEPT !.nextID = @ + 1, !.tex = @ \cup {new_world}]
      u1 == [u EXCEPT !.mWorldID = new_world, !.mLastModified = new_last_modified]
      h2 == IF first_update THEN h1
            ELSE deleteImage(replaceIDs(h1, old_id, new_world), old_id)
  IN [h |-> h2, u |-> u1, ret |-> TRUE, path |-> "decoded"]

\* faulty variant of UpdateFailed: the link breaks with one retry left
UpdateFailed_BreaksEarly(h, u) ==
  [h |-> h,
   u |-> IF u.mUpdateRetries > 1
           THEN [u EXCEPT !.mUpdateRetries = @ - 1]
           ELSE [u EXCEPT !.mUpdateRetries = 0, !.mLinkStatus = LS_BROKEN],
   ret |-> FALSE, path |-> "failed"]

\* faulty variant of UpdateFailed: with no retry left the link stays on
UpdateFailed_NeverBreaks(h, u) ==
  [h |-> h,
   u |-> IF u.mUpdateRetries # 0 THEN [u EXCEPT !.mUpdateRetries = @ - 1] ELSE u,
   ret |-> FALSE, path |-> "failed"]

\* the branch of updateSelf after a failed decode
UpdateFailed(h, u) ==
  [h |-> h,
   u |-> IF u.mUpdateRetries # 0
           THEN [u EXCEPT !.mUpdateRetries = @ - 1]
           ELSE [u EXCEPT !.mLinkStatus = LS_BROKEN],
   ret |-> FALSE, path |-> "failed"]

\* faulty variant of updateSelf: mLinkStatus is not looked at
updateSelf_IgnoresStatus(h, u, first_update, fs) ==
  IF ~fs[u.mFilename].exists
    THEN [h |-> h, u |-> [u EXCEPT !.mLinkStatus = LS_BROKEN], ret |-> FALSE,
          path |-> "missing"]
  ELSE IF u.mLastModified = asctime(fs[u.mFilename].mtime)
    THEN [h |-> h, u |-> u, ret |-> FALSE, path |-> "unchanged"]
  ELSE IF decodeBitmap(u.mExtension, fs[u.mFilename].kind)
    THEN UpdateDecoded(h, u, first_update, asctime(fs[u.mFilename].mtime))
  ELSE UpdateFailed(h, u)

\* faulty variant of updateSelf: the time stamp is not compared
updateSelf_AlwaysDecodes(h, u, first_update, fs) ==
  IF u.mLinkStatus = LS_ON
    THEN IF ~fs[u.mFilename].exists
           THEN [h |-> h, u |-> [u EXCEPT !.mLinkStatus = LS_BROKEN], ret |-> FALSE,
                 path |-> "missing"]
         ELSE IF decodeBitmap(u.mExtension, fs[u.mFilename].kind)
           THEN UpdateDecoded(h, u, first_update, asctime(fs[u.mFilename].mtime))
         ELSE UpdateFailed(h, u)
    ELSE [h |-> h, u |-> u, ret |-> FALSE, path |-> "broken"]

\* bool LLLocalBitmap::updateSelf(bool first_update): the globals and the
\* unit after the call, and the value returned
updateSelf(h, u, first_update, fs) ==
  IF u.mLinkStatus = LS_ON
    THEN IF ~fs[u.mFilename].exists
           THEN [h |-> h, u |-> [u EXCEPT !.mLinkStatus = LS_BROKEN], ret |-> FALSE,
                 path |-> "missing"]
         ELSE IF u.mLastModified = asctime(fs[u.mFilename].mtime)
           THEN [h |-> h, u |-> u, ret |-> FALSE, path |-> "unchanged"]
         ELSE IF decodeBitmap(u.mExtension, fs[u.mFilename].kind)
           THEN UpdateDecoded(h, u, first_update, asctime(fs[u.mFilename].mtime))
         ELSE UpdateFailed(h, u)
    ELSE [h |-> h, u |-> u, ret |-> FALSE, path |-> "broken"]

\* the members as the constructor sets them before it looks at the extension
NewUnit(filename, tracking_id) ==
  [ mFilename |-> filename, mValid |-> FALSE, mLastModified |-> 0,
    mLinkStatus |-> LS_ON, mUpdateRetries |-> LL_LOCAL_UPDATE_RETRIES,
    mTrackingID |-> tracking_id, mWorldID |-> LLUUID_null,
    mExtension |-> ET_UNSET ]

\* faulty variant of Construct: an unknown extension breaks the link
Construct_BreaksLink(h, filename, fs) ==
  LET u0 == NewUnit(filename, h.nextID)
      h0 == [h EXCEPT !.nextID = @ + 1]
      ext == ExtensionOf(filename.exten)
  IN IF ext = ET_UNSET
       THEN [h |-> h0, u |-> [u0 EXCEPT !.mLinkStatus = LS_BROKEN], ret |-> FALSE,
             path |-> "noext"]
       ELSE LET r == updateSelf(h0, [u0 EXCEPT !.mExtension = ext], TRUE, fs)
            IN [h |-> r.h, u |-> [r.u EXCEPT !.mValid = r.ret], ret |-> r.ret,
                path |-> r.path]

\* LLLocalBitmap::LLLocalBitmap(filename)
Construct(h, filename, fs) ==
  LET u0 == NewUnit(filename, h.nextID)
      h0 == [h EXCEPT !.nextID = @ + 1]
      ext == ExtensionOf(filename.exten)
  IN IF ext = ET_UNSET
       THEN [h |-> h0, u |-> u0, ret |-> FALSE, path |-> "noext"]
       ELSE LET r == updateSelf(h0, [u0 EXCEPT !.mExtension = ext], TRUE, fs)
            IN [h |-> r.h, u |-> [r.u EXCEPT !.mValid = r.ret], ret |-> r.ret,
                path |-> r.path]

\* faulty variant of Destroy: the image stays in gTextureList
Destroy_KeepsImage(h, u) ==
  IF LL_LOCAL_REPLACE_ON_DEL
    THEN doRebake(replaceIDs(h, u.mWorldID, IMG_DEFAULT))
    ELSE h

\* faulty variant of Destroy: the ids are not replaced
Destroy_NoReplace(h, u) == deleteImage(h, u.mWorldID)

\* faulty variant of Destroy: retargets the consumers but does not rebake
Destroy_NoRebake(h, u) ==
  deleteImage(replaceIDs(h, u.mWorldID, IMG_DEFAULT), u.mWorldID)

\* LLLocalBitmap::~LLLocalBitmap()
Destroy(h, u) ==
  LET h1 == IF LL_LOCAL_REPLACE_ON_DEL
              THEN doRebake(replaceIDs(h, u.mWorldID, IMG_DEFAULT))
              ELSE h
  IN deleteImage(h1, u.mWorldID)

(***************************************************************************)
(* LLLocalBitmapMgr.                                                       *)
(***************************************************************************)
\* LLLocalBitmapMgr::getWorldID: the last matching unit's id, or null
RECURSIVE WorldIDFrom(_, _, _, _)
WorldIDFrom(list, tracking_id, k, world_id) ==
  IF k > Len(list) THEN world_id
  ELSE WorldIDFrom(list, tracking_id, k + 1,
                   IF list[k].mTrackingID = tracking_id THEN list[k].mWorldID ELSE world_id)

getWorldID(tracking_id) == WorldIDFrom(sBitmapList, tracking_id, 1, LLUUID_null)

\* delUnit's first loop: the units to delete, in list order
RECURSIVE ToDelete(_, _)
ToDelete(list, tracking_id) ==
  IF list = << >> THEN << >>
  ELSE (IF Head(list).mTrackingID = tracking_id THEN << Head(list) >> ELSE << >>)
       \o ToDelete(Tail(list), tracking_id)

\* faulty variant of Remove: the front entry goes, whichever it is
Remove_Front(list, u) == IF list = << >> THEN << >> ELSE Tail(list)

\* std::list::remove(unit): the list without the entries equal to unit
RECURSIVE Remove(_, _)
Remove(list, u) ==
  IF list = << >> THEN << >>
  ELSE (IF Head(list) = u THEN << >> ELSE << Head(list) >>) \o Remove(Tail(list), u)

\* delUnit's second loop over to_delete: remove from the list, then delete
RECURSIVE DeleteAll(_, _, _)
DeleteAll(h, list, to_delete) ==
  IF to_delete = << >> THEN [h |-> h, list |-> list]
  ELSE DeleteAll(Destroy(h, Head(to_delete)), Remove(list, Head(to_delete)), Tail(to_delete))

\* void LLLocalBitmapMgr::delUnit(tracking_id)
delUnit(h, list, tracking_id) ==
  IF list = << >> THEN [h |-> h, list |-> list]
  ELSE DeleteAll(h, list, ToDelete(list, tracking_id))

\* the tracking ids the list shows (feedScrollList)
ListedIds == { sBitmapList[k].mTrackingID : k \in 1..Len(sBitmapList) }

\* the file-picker selections: one to MaxPick file names
Selections == UNION { [1..n -> FileNames] : n \in 1..MaxPick }


\* the files and the globals at start-up
StartHeap ==
  [ tex |-> {}, faceTex |-> [o \in ObjectIds |-> [f \in 1..ObjectList[o].numFaces |-> IMG_DEFAULT]],
    sculptID |-> [o \in ObjectIds |-> IMG_DEFAULT],
    layerID |-> [t \in WearableTypes |->
                   [wi \in 1..Len(WornList(t)) |->
                      [si \in 1..Len(WornList(t)[wi].slots) |-> IMG_DEFAULT_AVATAR]]],
    needsRebake |-> FALSE, nextID |-> 1, sent |-> NoUpdates, freed |-> {},
    bakes |-> 0, layerSet |-> FALSE ]

StartFiles ==
  [f \in FileNames |->
     IF f = FileGone
       THEN [exists |-> FALSE, mtime |-> 1, kind |-> "bad"]
       ELSE [exists |-> TRUE, mtime |-> 1, kind |-> "bmp"]]

(***************************************************************************)
(* Initial state: no units, the timer started by its constructor, every    *)
(* consumer on a placeholder texture.                                      *)
(***************************************************************************)
Init ==
  /\ files = StartFiles
  /\ sBitmapList = << >>
  /\ sTimerStarted = TRUE
  /\ sNeedsRebake = FALSE
  /\ gTextureList = {}
  /\ faceTex = [o \in ObjectIds |-> [f \in 1..ObjectList[o].numFaces |-> IMG_DEFAULT]]
  /\ sculptID = [o \in ObjectIds |-> IMG_DEFAULT]
  /\ layerID = [t \in WearableTypes |->
                  [wi \in 1..Len(WornList(t)) |->
                     [si \in 1..Len(WornList(t)[wi].slots) |-> IMG_DEFAULT_AVATAR]]]
  /\ nextID = 1
  /\ pc = "idle"
  /\ iter = 1
  /\ picked = << >>
  /\ unit = << >>
  /\ called = << >>
  /\ path = "none"
  /\ ret = FALSE
  /\ teUpdates = NoUpdates
  /\ freed = {}
  /\ bakes = 0
  /\ layerSet = FALSE
  /\ parser = NoParser

(***************************************************************************)
(* bool LLLocalBitmapMgr::addUnit()                                        *)
(***************************************************************************)
\* the picker returned no file: nothing is touched
AddUnitNoFiles ==
  /\ pc = "idle"
  /\ UNCHANGED vars

\* the picker returned files: the timer is stopped before the loop
AddUnitBegin(sel) ==
  /\ pc = "idle"
  /\ nextID + 2 * Len(sel) - 1 <= MaxIds
  /\ pc' = "add"
  /\ sTimerStarted' = FALSE
  /\ picked' = sel
  /\ unit' = << >>
  /\ called' = << >>
  /\ path' = "none"
  /\ ret' = FALSE
  /\ teUpdates' = NoUpdates
  /\ freed' = {}
  /\ bakes' = 0
  /\ layerSet' = FALSE
  /\ UNCHANGED << parser, files, sBitmapList, sNeedsRebake, gTextureList, faceTex,
                  sculptID, layerID, nextID, iter >>

\* LLLocalBitmap* unit = new LLLocalBitmap(filename)
AddUnitConstruct ==
  /\ pc = "add"
  /\ unit = << >>
  /\ picked # << >>
  /\ LET r == Construct(Heap, Head(picked), files)
     IN /\ SetHeap(r.h)
        /\ unit' = << r.u >>
        /\ called' = IF r.path = "noext" THEN << >>
                      ELSE << [NewUnit(Head(picked), nextID) EXCEPT
                                 !.mExtension = ExtensionOf(Head(picked).exten)] >>
        /\ path' = r.path
        /\ ret' = r.ret
  /\ UNCHANGED << parser, files, sBitmapList, sTimerStarted, pc, iter, picked >>

\* unit->getValid(): push_back
AddUnitKeep ==
  /\ pc = "add"
  /\ unit # << >>
  /\ unit[1].mValid
  /\ sBitmapList' = Append(sBitmapList, unit[1])
  /\ unit' = << >>
  /\ picked' = Tail(picked)
  /\ teUpdates' = NoUpdates
  /\ freed' = {}
  /\ UNCHANGED << parser, files, sTimerStarted, sNeedsRebake, gTextureList, faceTex,
                  sculptID, layerID, nextID, pc, iter, called, path, ret,
                  bakes, layerSet >>

\* faulty variant of AddUnitDiscard: the invalid unit is pushed all the same
AddUnitDiscard_Appends ==
  /\ pc = "add"
  /\ unit # << >>
  /\ ~unit[1].mValid
  /\ sBitmapList' = Append(sBitmapList, unit[1])
  /\ unit' = << >>
  /\ picked' = Tail(picked)
  /\ teUpdates' = NoUpdates
  /\ freed' = {}
  /\ UNCHANGED << parser, files, sTimerStarted, sNeedsRebake, gTextureList, faceTex,
                  sculptID, layerID, nextID, pc, iter, called, path, ret,
                  bakes, layerSet >>

\* !unit->getValid(): delete unit
AddUnitDiscard ==
  /\ pc = "add"
  /\ unit # << >>
  /\ ~unit[1].mValid
  /\ SetHeap(Destroy(Heap, unit[1]))
  /\ unit' = << >>
  /\ picked' = Tail(picked)
  /\ UNCHANGED << parser, files, sBitmapList, sTimerStarted, pc, iter, called, path, ret >>

\* the loop is over: the timer is started again
AddUnitEnd ==
  /\ pc = "add"
  /\ unit = << >>
  /\ picked = << >>
  /\ pc' = "idle"
  /\ sTimerStarted' = TRUE
  /\ called' = << >>
  /\ path' = "none"
  /\ ret' = FALSE
  /\ teUpdates' = NoUpdates
  /\ freed' = {}
  /\ UNCHANGED << parser, files, sBitmapList, sNeedsRebake, gTextureList, faceTex,
                  sculptID, layerID, nextID, iter, picked, unit, bakes,
                  layerSet >>

(***************************************************************************)
(* void LLLocalBitmapMgr::delUnit(LLUUID tracking_id)                      *)
(***************************************************************************)
DelUnit(tracking_id) ==
  /\ pc = "idle"
  /\ LET r == delUnit(FreshHeap, sBitmapList, tracking_id)
     IN /\ SetHeap(r.h)
        /\ sBitmapList' = r.list
  /\ called' = << >>
  /\ path' = "none"
  /\ ret' = FALSE
  /\ UNCHANGED << parser, files, sTimerStarted, pc, iter, picked, unit >>

(***************************************************************************)
(* LLLocalBitmapTimer::tick and void LLLocalBitmapMgr::doUpdates()         *)
(***************************************************************************)
\* LLEventTimer: the event loop calls tick() only on a timer that is started
TimerDue == sTimerStarted

\* faulty variant of Tick: doUpdates leaves the timer running
Tick_KeepsTimer ==
  /\ TimerDue
  /\ pc' = "upd"
  /\ sNeedsRebake' = FALSE
  /\ iter' = 1
  /\ called' = << >>
  /\ path' = "none"
  /\ ret' = FALSE
  /\ teUpdates' = NoUpdates
  /\ freed' = {}
  /\ bakes' = 0
  /\ layerSet' = FALSE
  /\ UNCHANGED << parser, files, sBitmapList, sTimerStarted, gTextureList, faceTex,
                  sculptID, layerID, nextID, picked, unit >>

\* the event loop calls tick() of a started timer whose period has passed;
\* doUpdates stops the timer and clears the flag before its loop
Tick ==
  /\ TimerDue
  /\ pc' = "upd"
  /\ sTimerStarted' = FALSE
  /\ sNeedsRebake' = FALSE
  /\ iter' = 1
  /\ called' = << >>
  /\ path' = "none"
  /\ ret' = FALSE
  /\ teUpdates' = NoUpdates
  /\ freed' = {}
  /\ bakes' = 0
  /\ layerSet' = FALSE
  /\ UNCHANGED << parser, files, sBitmapList, gTextureList, faceTex, sculptID, layerID,
                  nextID, picked, unit >>

\* (*iter)->updateSelf(); the step needs no id past the limit-th
UpdateStep(limit) ==
  /\ pc = "upd"
  /\ iter <= Len(sBitmapList)
  /\ LET r == updateSelf(Heap, sBitmapList[iter], FALSE, files)
     IN /\ r.h.nextID <= limit + 1
        /\ SetHeap(r.h)
        /\ sBitmapList' = [sBitmapList EXCEPT ![iter] = r.u]
        /\ called' = << sBitmapList[iter] >>
        /\ path' = r.path
        /\ ret' = r.ret
  /\ iter' = iter + 1
  /\ UNCHANGED << parser, files, sTimerStarted, pc, picked, unit >>

\* doRebake(); sTimer.startTimer();
UpdateEnd ==
  /\ pc = "upd"
  /\ iter > Len(sBitmapList)
  /\ SetHeap(doRebake(Heap))
  /\ sTimerStarted' = TRUE
  /\ pc' = "idle"
  /\ iter' = 1
  /\ called' = << >>
  /\ path' = "none"
  /\ ret' = FALSE
  /\ UNCHANGED << parser, files, sBitmapList, picked, unit >>

(***************************************************************************)
(* The environment: the watched files.                                     *)
(***************************************************************************)
WriteFile(f, t, k) ==
  /\ files' = [files EXCEPT ![f] = [exists |-> TRUE, mtime |-> t, kind |-> k]]
  /\ UNCHANGED << parser, sBitmapList, sTimerStarted, sNeedsRebake, gTextureList,
                  faceTex, sculptID, layerID, nextID, pc, iter,
                  picked, unit, called, path, ret, teUpdates, freed, bakes,
                  layerSet >>

DeleteFile(f) ==
  /\ files[f].exists
  /\ files' = [files EXCEPT ![f] = [exists |-> FALSE, mtime |-> 1, kind |-> "bad"]]
  /\ UNCHANGED << parser, sBitmapList, sTimerStarted, sNeedsRebake, gTextureList,
                  faceTex, sculptID, layerID, nextID, pc, iter,
                  picked, unit, called, path, ret, teUpdates, freed, bakes,
                  layerSet >>

\* the manager's operations
Manager ==
  \/ AddUnitNoFiles
  \/ \E sel \in Selections : AddUnitBegin(sel)
  \/ AddUnitConstruct
  \/ AddUnitKeep
  \/ AddUnitDiscard
  \/ AddUnitEnd
  \/ \E t \in 1..MaxIds : DelUnit(t)
  \/ Tick
  \/ UpdateStep(MaxIds)
  \/ UpdateEnd

FileSystem ==
  \/ \E f \in WatchedFiles, t \in Times, k \in FileKinds : WriteFile(f, t, k)
  \/ \E f \in WatchedFiles : DeleteFile(f)

(***************************************************************************)
(* Spec: the manager and the watched files, from start-up.  No local       *)
(* bitmap is applied to a consumer, so the consumers stay on placeholders. *)
(***************************************************************************)
Next == Manager \/ FileSystem

Spec == Init /\ [][Next]_vars

(***************************************************************************)
(* SpecWorld: the updates and deletions of two units in a world whose      *)
(* consumers the user has pointed at them.  It starts where addUnit on a   *)
(* selection of twice the same file, followed by any number of texture     *)
(* picks, leaves the start-up state.                                       *)
(***************************************************************************)
FirstAdded == Construct(StartHeap, FileBmp, StartFiles)
SecondAdded == Construct(FirstAdded.h, FileBmp, StartFiles)

\* what a consumer can hold after the picks
Picks(placeholder) == {placeholder, FirstAdded.u.mWorldID, SecondAdded.u.mWorldID}

InitWorld ==
  /\ files = StartFiles
  /\ sBitmapList = << FirstAdded.u, SecondAdded.u >>
  /\ sTimerStarted = TRUE
  /\ sNeedsRebake = FALSE
  /\ gTextureList = SecondAdded.h.tex
  /\ faceTex \in [ObjectIds -> UNION {[1..n -> Picks(IMG_DEFAULT)] : n \in 0..2}]
  /\ \A o \in ObjectIds :
        /\ Len(faceTex[o]) = ObjectList[o].numFaces
        /\ ~ObjectList[o].drawable => \A f \in 1..Len(faceTex[o]) : faceTex[o][f] = IMG_DEFAULT
  /\ sculptID \in [ObjectIds -> Picks(IMG_DEFAULT)]
  /\ \A o \in ObjectIds : ~ObjectList[o].sculpted => sculptID[o] = IMG_DEFAULT
  /\ \E shirt \in [1..2 -> Picks(IMG_DEFAULT_AVATAR)] :
        layerID = [t \in WearableTypes |->
                     IF t = "WT_SHIRT" THEN << shirt >> ELSE StartHeap.layerID[t]]
  /\ nextID = SecondAdded.h.nextID
  /\ pc = "idle"
  /\ iter = 1
  /\ picked = << >>
  /\ unit = << >>
  /\ called = << >>
  /\ path = "none"
  /\ ret = FALSE
  /\ teUpdates = NoUpdates
  /\ freed = {}
  /\ bakes = 0
  /\ layerSet = FALSE
  /\ parser = NoParser

\* the ids in use when SpecWorld starts
WorldIds == SecondAdded.h.nextID - 1

\* here the watched file stays in place, and holds a decodable image
\* whenever it is written
NextWorld ==
  \/ \E t \in 1..WorldIds : DelUnit(t)
  \/ Tick
  \/ UpdateStep(WorldIds + MaxRefresh)
  \/ UpdateEnd
  \/ \E f \in WatchedFiles, t \in Times : WriteFile(f, t, "bmp")

SpecWorld == InitWorld /\ [][NextWorld]_vars

(***************************************************************************)
(* SpecPropagate: replaceIDs and doRebake on their own, called with any    *)
(* pair of ids on any assignment of ids to the consumers.                  *)
(***************************************************************************)
\* the ids of this specification: the two placeholders and the local ones
PropIds == {IMG_DEFAULT, IMG_DEFAULT_AVATAR} \cup (1..MaxLocal)

InitPropagate ==
  /\ files = StartFiles
  /\ sBitmapList = << >>
  /\ sTimerStarted = TRUE
  /\ sNeedsRebake \in BOOLEAN
  /\ gTextureList = 1..MaxLocal
  /\ \E face \in [1..2 -> {IMG_DEFAULT} \cup (1..MaxLocal)] :
        faceTex = [StartHeap.faceTex EXCEPT ![1] = face]
  /\ \E sculpt \in {IMG_DEFAULT} \cup (1..MaxLocal) :
        sculptID = [StartHeap.sculptID EXCEPT ![3] = sculpt]
  /\ \E shirt \in [1..2 -> PropIds], pants \in 1..MaxLocal :
        layerID = [StartHeap.layerID EXCEPT !["WT_SHIRT"] = << shirt >>,
                                            !["WT_PANTS"] = << << >>, << pants >> >>]
  /\ nextID = MaxLocal + 1
  /\ pc = "idle"
  /\ iter = 1
  /\ picked = << >>
  /\ unit = << >>
  /\ called = << >>
  /\ path = "none"
  /\ ret = FALSE
  /\ teUpdates = NoUpdates
  /\ freed = {}
  /\ bakes = 0
  /\ layerSet = FALSE
  /\ parser = NoParser

\* replaceIDs(old_id, new_id)
Propagate(old_id, new_id) ==
  /\ SetHeap(replaceIDs(FreshHeap, old_id, new_id))
  /\ UNCHANGED << parser, files, sBitmapList, sTimerStarted, pc, iter, picked, unit,
                  called, path, ret >>

\* LLLocalBitmapMgr::doRebake()
Rebake ==
  /\ SetHeap(doRebake(FreshHeap))
  /\ UNCHANGED << parser, files, sBitmapList, sTimerStarted, pc, iter, picked, unit,
                  called, path, ret >>

\* the calls the program makes: updateSelf passes the unit's last id and a
\* generated one, the destructor the unit's id and IMG_DEFAULT
NextPropagate ==
  \/ \E old_id \in 1..MaxLocal, new_id \in {IMG_DEFAULT} \cup (1..MaxLocal) :
        Propagate(old_id, new_id)
  \/ Rebake

SpecPropagate == InitPropagate /\ [][NextPropagate]_vars

(***************************************************************************)
(* SpecRefresh: the branch of updateSelf(false) after a successful decode, *)
(* one statement group at a time: the new id and its texture, the faces,   *)
(* the sculpts, each wearable category, the old texture.  It starts where  *)
(* SpecWorld starts.  While a refresh is under way called holds the unit   *)
(* as it was before the call, and iter the position in the list of         *)
(* updateUserLayers calls.                                                 *)
(***************************************************************************)
\* the id the unit under refresh had before the call, and the unit now
RefreshOld == called[1].mWorldID
RefreshUnit ==
  CHOOSE u \in { sBitmapList[k] : k \in 1..Len(sBitmapList) } :
    u.mTrackingID = called[1].mTrackingID

\* faulty variant of RefreshBegin: the old texture leaves gTextureList as soon
\* as the new one is in
RefreshBegin_DropsOld(k) ==
  /\ pc = "idle"
  /\ k \in 1..Len(sBitmapList)
  /\ DecodeSucceeds(sBitmapList[k], files)
  /\ nextID <= WorldIds + MaxRefresh
  /\ sBitmapList' = [sBitmapList EXCEPT
                       ![k].mWorldID = nextID,
                       ![k].mLastModified = asctime(files[sBitmapList[k].mFilename].mtime)]
  /\ nextID' = nextID + 1
  /\ gTextureList' = (gTextureList \ {sBitmapList[k].mWorldID}) \cup {nextID}
  /\ called' = << sBitmapList[k] >>
  /\ pc' = "prims"
  /\ teUpdates' = NoUpdates
  /\ freed' = {}
  /\ bakes' = 0
  /\ layerSet' = FALSE
  /\ UNCHANGED << parser, files, sTimerStarted, sNeedsRebake, faceTex, sculptID, layerID,
                  iter, picked, unit, path, ret >>

\* updateSelf up to gTextureList.addImage(texture): old_id, mWorldID.generate(),
\* mLastModified, the new texture
RefreshBegin(k) ==
  /\ pc = "idle"
  /\ k \in 1..Len(sBitmapList)
  /\ DecodeSucceeds(sBitmapList[k], files)
  /\ nextID <= WorldIds + MaxRefresh
  /\ sBitmapList' = [sBitmapList EXCEPT
                       ![k].mWorldID = nextID,
                       ![k].mLastModified = asctime(files[sBitmapList[k].mFilename].mtime)]
  /\ nextID' = nextID + 1
  /\ gTextureList' = gTextureList \cup {nextID}
  /\ called' = << sBitmapList[k] >>
  /\ pc' = "prims"
  /\ teUpdates' = NoUpdates
  /\ freed' = {}
  /\ bakes' = 0
  /\ layerSet' = FALSE
  /\ UNCHANGED << parser, files, sTimerStarted, sNeedsRebake, faceTex, sculptID, layerID,
                  iter, picked, unit, path, ret >>

\* replaceIDs: the test of old_id against new_id, and updateUserPrims
RefreshPrims ==
  /\ pc = "prims"
  /\ IF RefreshOld = RefreshUnit.mWorldID
       THEN /\ SetHeap(Heap)
            /\ pc' = "del"
       ELSE /\ SetHeap(updateUserPrims(Heap, RefreshOld, RefreshUnit.mWorldID))
            /\ pc' = "sculpts"
  /\ UNCHANGED << parser, files, sBitmapList, sTimerStarted, iter, picked, unit, called,
                  path, ret >>

\* replaceIDs: updateUserSculpts
RefreshSculpts ==
  /\ pc = "sculpts"
  /\ SetHeap(updateUserSculpts(Heap, RefreshOld, RefreshUnit.mWorldID))
  /\ pc' = "layers"
  /\ iter' = 1
  /\ UNCHANGED << parser, files, sBitmapList, sTimerStarted, picked, unit, called, path, ret >>

\* replaceIDs: one of its updateUserLayers calls
RefreshLayers ==
  /\ pc = "layers"
  /\ SetHeap(updateUserLayers(Heap, RefreshOld, LayerIdFor(RefreshUnit.mWorldID),
                              WearableOrder[iter]))
  /\ IF iter = Len(WearableOrder)
       THEN pc' = "del" /\ iter' = 1
       ELSE pc' = "layers" /\ iter' = iter + 1
  /\ UNCHANGED << parser, files, sBitmapList, sTimerStarted, picked, unit, called, path, ret >>

\* updateSelf: gTextureList.deleteImage(gTextureList.findImage(old_id))
RefreshDelete ==
  /\ pc = "del"
  /\ SetHeap(deleteImage(Heap, RefreshOld))
  /\ pc' = "idle"
  /\ called' = << >>
  /\ UNCHANGED << parser, files, sBitmapList, sTimerStarted, iter, picked, unit, path, ret >>

\* the file is written between two updateSelf calls
NextRefresh ==
  \/ \E k \in 1..WorldIds : RefreshBegin(k)
  \/ RefreshPrims
  \/ RefreshSculpts
  \/ RefreshLayers
  \/ RefreshDelete
  \/ pc = "idle" /\ \E f \in WatchedFiles, t \in Times : WriteFile(f, t, "bmp")

SpecRefresh == InitWorld /\ [][NextRefresh]_vars

(***************************************************************************)
(* SpecRetry: the timer-driven passes over the unit of one file while the  *)
(* file is rewritten and deleted.  The event loop keeps calling tick() of  *)
(* the started timer, and a pass that has begun runs to its end.  It       *)
(* starts after addUnit on a selection of that file.                       *)
(***************************************************************************)
InitRetry ==
  /\ files = StartFiles
  /\ sBitmapList = << FirstAdded.u >>
  /\ sTimerStarted = TRUE
  /\ sNeedsRebake = FALSE
  /\ gTextureList = FirstAdded.h.tex
  /\ faceTex = StartHeap.faceTex
  /\ sculptID = StartHeap.sculptID
  /\ layerID = StartHeap.layerID
  /\ nextID = FirstAdded.h.nextID
  /\ pc = "idle"
  /\ iter = 1
  /\ picked = << >>
  /\ unit = << >>
  /\ called = << >>
  /\ path = "none"
  /\ ret = FALSE
  /\ teUpdates = NoUpdates
  /\ freed = {}
  /\ bakes = 0
  /\ layerSet = FALSE
  /\ parser = NoParser

\* a decodable image is written between two passes, while the ids last for
\* one more updateSelf of every unit
WriteDecodable(f, t) ==
  /\ pc = "idle"
  /\ nextID + Len(sBitmapList) <= WorldIds + MaxRefresh + 1
  /\ WriteFile(f, t, "bmp")

NextRetry ==
  \/ Tick
  \/ UpdateStep(WorldIds + MaxRefresh)
  \/ UpdateEnd
  \/ \E f \in WatchedFiles, t \in Times : WriteFile(f, t, "bad")
  \/ \E f \in WatchedFiles, t \in Times : WriteDecodable(f, t)
  \/ \E f \in WatchedFiles : DeleteFile(f)

SpecRetry ==
  /\ InitRetry
  /\ [][NextRetry]_vars
  /\ WF_vars(Tick)
  /\ WF_vars(UpdateStep(WorldIds + MaxRefresh))
  /\ WF_vars(UpdateEnd)

(***************************************************************************)
(* SpecAdd: addUnit from start-up, in a world where a face, a sculpt or a  *)
(* layer slot may have no texture id (LLUUID::null) instead of a           *)
(* placeholder.  The files stay as they are.                               *)
(***************************************************************************)
InitAdd ==
  /\ files = StartFiles
  /\ sBitmapList = << >>
  /\ sTimerStarted = TRUE
  /\ sNeedsRebake = FALSE
  /\ gTextureList = {}
  /\ \E face \in [1..2 -> {LLUUID_null, IMG_DEFAULT}] :
        faceTex = [StartHeap.faceTex EXCEPT ![1] = face]
  /\ \E sculpt \in {LLUUID_null, IMG_DEFAULT} :
        sculptID = [StartHeap.sculptID EXCEPT ![3] = sculpt]
  /\ \E shirt \in [1..2 -> {LLUUID_null, IMG_DEFAULT_AVATAR}],
        pants \in {LLUUID_null, IMG_DEFAULT_AVATAR} :
        layerID = [StartHeap.layerID EXCEPT !["WT_SHIRT"] = << shirt >>,
                                            !["WT_PANTS"] = << << >>, << pants >> >>]
  /\ nextID = 1
  /\ pc = "idle"
  /\ iter = 1
  /\ picked = << >>
  /\ unit = << >>
  /\ called = << >>
  /\ path = "none"
  /\ ret = FALSE
  /\ teUpdates = NoUpdates
  /\ freed = {}
  /\ bakes = 0
  /\ layerSet = FALSE
  /\ parser = NoParser

NextAdd ==
  \/ AddUnitNoFiles
  \/ \E sel \in Selections : AddUnitBegin(sel)
  \/ AddUnitConstruct
  \/ AddUnitKeep
  \/ AddUnitDiscard
  \/ AddUnitEnd

SpecAdd == InitAdd /\ [][NextAdd]_vars

(***************************************************************************)
(* LLUriParser.  A std::string is a sequence of characters; a UriTextRangeA *)
(* is a pair of positions in the parsed string (0 stands for NULL).         *)
(***************************************************************************)
\* the longest mPath extractParts is still called with
MaxPath == 4

SchemeSeparator == << ":", "/", "/" >>
TmpScheme == << "h", "t", "t", "p" >> \o SchemeSeparator

\* the strings given to the constructor
UriSchemes == { << >>, << "s" >> \o SchemeSeparator }
UriHosts == { << >>, << "h" >> }
UriPorts == { << >>, << ":", "8" >> }
UriPaths == { << >>, << "/" >>, << "/", "a" >>, << "/", "a", "/", "b" >> }
UriQueries == { << >>, << "?" >>, << "?", "q" >> }
UriFragments == { << >>, << "#" >>, << "#", "f" >> }
UriInputs ==
  { sc \o ho \o po \o pa \o qu \o fr :
      sc \in UriSchemes, ho \in UriHosts, po \in UriPorts, pa \in UriPaths,
      qu \in UriQueries, fr \in UriFragments }

NullRange == [first |-> 0, afterLast |-> 0]

\* u.find("://") != std::string::npos
HasSchemeSeparator(u) ==
  \E i \in 1..Len(u) : i + 2 <= Len(u) /\ SubSeq(u, i, i + 2) = SchemeSeparator

\* the first position at or after from that holds one of the characters cs,
\* or the position after the end
FirstOf(text, cs, from) ==
  LET hits == { i \in from..Len(text) : text[i] \in cs }
  IN IF hits = {} THEN Len(text) + 1
     ELSE CHOOSE i \in hits : \A j \in hits : i <= j

\* the path segments that begin at pos, each after its "/"
RECURSIVE PathSegmentsFrom(_, _)
PathSegmentsFrom(text, pos) ==
  IF pos <= Len(text) /\ text[pos] = "/"
    THEN LET e == FirstOf(text, {"/", "?", "#"}, pos + 1)
         IN << [first |-> pos + 1, afterLast |-> e] >> \o PathSegmentsFrom(text, e)
    ELSE << >>

\* uriParseUriA on scheme "://" host [":" port] path ["?" query] ["#" fragment]
uriParseUriA(text) ==
  LET colon == FirstOf(text, {":"}, 1)
      auth == colon + 3
      authEnd == FirstOf(text, {"/", "?", "#"}, auth)
      portColon == FirstOf(SubSeq(text, 1, authEnd - 1), {":"}, auth)
      pathEnd == FirstOf(text, {"?", "#"}, authEnd)
      queryEnd == FirstOf(text, {"#"}, pathEnd)
  IN [ scheme |-> [first |-> 1, afterLast |-> colon],
       hostText |-> [first |-> auth, afterLast |-> portColon],
       portText |-> IF portColon < authEnd
                      THEN [first |-> portColon + 1, afterLast |-> authEnd]
                      ELSE NullRange,
       pathHead |-> PathSegmentsFrom(text, authEnd),
       query |-> IF pathEnd <= Len(text) /\ text[pathEnd] = "?"
                   THEN [first |-> pathEnd + 1, afterLast |-> queryEnd]
                   ELSE NullRange,
       fragment |-> IF queryEnd <= Len(text)
                      THEN [first |-> queryEnd + 1, afterLast |-> Len(text) + 1]
                      ELSE NullRange ]

\* LLUriParser::LLUriParser(const std::string& u)
LLUriParser(u) ==
  LET tmp == ~HasSchemeSeparator(u)
      normalized == (IF tmp THEN TmpScheme ELSE << >>) \o u
  IN [ mTmpScheme |-> tmp, mNormalizedUri |-> normalized,
       mUri |-> uriParseUriA(normalized), mRes |-> 0,
       mScheme |-> << >>, mHost |-> << >>, mPort |-> << >>, mPath |-> << >>,
       mQuery |-> << >>, mFragment |-> << >> ]

\* LLUriParser::textRangeToString: the string assigned to str, for a range
\* of text
textRangeToString(text, textRange) ==
  IF /\ textRange.first # 0
     /\ textRange.afterLast # 0
     /\ ~(textRange.first >= textRange.afterLast)
    THEN SubSeq(text, textRange.first, textRange.afterLast - 1)
    ELSE << >>

\* the while loop of extractParts from the k-th segment on
RECURSIVE PathFrom(_, _, _, _)
PathFrom(text, pathHead, k, mPath) ==
  IF k > Len(pathHead) THEN mPath
  ELSE PathFrom(text, pathHead, k + 1,
                mPath \o << "/" >> \o textRangeToString(text, pathHead[k]))

\* void LLUriParser::extractParts()
extractParts(p) ==
  LET text == p.mNormalizedUri
  IN [p EXCEPT
        !.mScheme = IF p.mTmpScheme THEN << >>
                    ELSE textRangeToString(text, p.mUri.scheme),
        !.mHost = textRangeToString(text, p.mUri.hostText),
        !.mPort = textRangeToString(text, p.mUri.portText),
        !.mQuery = textRangeToString(text, p.mUri.query),
        !.mFragment = textRangeToString(text, p.mUri.fragment),
        !.mPath = PathFrom(text, p.mUri.pathHead, 1, p.mPath)]

\* void LLUriParser::glue(std::string& uri) const: uri after the call
glue(p, uri) ==
  LET u1 == IF Len(p.mScheme) # 0 THEN p.mScheme \o SchemeSeparator ELSE uri
      u2 == u1 \o p.mHost
      u3 == IF Len(p.mPort) # 0 THEN u2 \o << ":" >> \o p.mPort ELSE u2
      u4 == u3 \o p.mPath
  IN IF Len(p.mQuery) # 0
       THEN LET u5 == u4 \o << "?" >> \o p.mQuery
            IN IF Len(p.mFragment) # 0 THEN u5 \o << "#" >> \o p.mFragment ELSE u5
       ELSE u4

\* bool LLUriParser::test() const
test(p) == glue(p, << >>) = p.mNormalizedUri

\* a parser has been constructed for one of the strings; the local bitmaps
\* are as at start-up
InitUri ==
  /\ files = StartFiles
  /\ sBitmapList = << >>
  /\ sTimerStarted = TRUE
  /\ sNeedsRebake = FALSE
  /\ gTextureList = {}
  /\ faceTex = StartHeap.faceTex
  /\ sculptID = StartHeap.sculptID
  /\ layerID = StartHeap.layerID
  /\ nextID = 1
  /\ pc = "idle"
  /\ iter = 1
  /\ picked = << >>
  /\ unit = << >>
  /\ called = << >>
  /\ path = "none"
  /\ ret = FALSE
  /\ teUpdates = NoUpdates
  /\ freed = {}
  /\ bakes = 0
  /\ layerSet = FALSE
  /\ parser \in { LLUriParser(u) : u \in UriInputs }

\* a caller calls extractParts()
ExtractParts ==
  /\ Len(parser.mPath) <= MaxPath
  /\ parser' = extractParts(parser)
  /\ UNCHANGED << files, sBitmapList, sTimerStarted, sNeedsRebake, gTextureList,
                  faceTex, sculptID, layerID, nextID, pc, iter, picked, unit,
                  called, path, ret, teUpdates, freed, bakes, layerSet >>

NextUri == ExtractParts

SpecUri == InitUri /\ [][NextUri]_vars

(***************************************************************************)
(* Properties.                                                             *)
(***************************************************************************)
\* the step is one updateSelf call of doUpdates, on sBitmapList[iter]
IsUpdateStep == pc = "upd" /\ iter' = iter + 1

\* the step is new LLLocalBitmap(filename) in addUnit
IsConstructStep == pc = "add" /\ unit = << >> /\ unit' # << >>

\* the step is addUnit's push_back or delete of the unit it constructed
IsDisposeStep == pc = "add" /\ unit # << >> /\ unit' = << >>

\* the step is a delUnit call that found a unit to delete
IsDelStep == pc = "idle" /\ pc' = "idle" /\ sBitmapList' # sBitmapList

\* the units that exist: the listed ones and the one addUnit holds
LiveUnits ==
  { sBitmapList[k] : k \in 1..Len(sBitmapList) } \cup { unit[k] : k \in 1..Len(unit) }

\* a constructor or updateSelf call has just returned, and the unit it left
JustCalled == (pc = "upd" /\ iter > 1) \/ (pc = "add" /\ unit # << >>)
LastCalled == IF pc = "upd" THEN sBitmapList[iter - 1] ELSE unit[1]

\* C1: once a unit's mLinkStatus is LS_BROKEN, every updateSelf call on it
\* returns false, no step changes its mWorldID or mLastModified, and no step
\* sets its status back to LS_ON.
BrokenIsTerminal ==
  [][ \A k \in 1..Len(sBitmapList) :
        sBitmapList[k].mLinkStatus = LS_BROKEN =>
          /\ \A j \in 1..Len(sBitmapList') :
               sBitmapList'[j].mTrackingID = sBitmapList[k].mTrackingID =>
                 /\ sBitmapList'[j].mLinkStatus = LS_BROKEN
                 /\ sBitmapList'[j].mWorldID = sBitmapList[k].mWorldID
                 /\ sBitmapList'[j].mLastModified = sBitmapList[k].mLastModified
          /\ (IsUpdateStep /\ iter = k) => ret' = FALSE ]_vars

\* C1 happens: updateSelf has run on a unit that was already broken and that
\* had published a texture
BrokenUnitRefreshed ==
  /\ pc = "upd"
  /\ called # << >>
  /\ called[1].mLinkStatus = LS_BROKEN
  /\ called[1].mWorldID # LLUUID_null
  /\ path = "broken"

\* what one updateSelf call that found unit u and left it as u2 may do to the
\* retry counter and the link status
RetryRule(u, u2) ==
  /\ (DecodeFails(u, files) /\ u.mUpdateRetries > 0) =>
        /\ u2.mUpdateRetries = u.mUpdateRetries - 1
        /\ u2.mLinkStatus = LS_ON
  /\ (DecodeFails(u, files) /\ u.mUpdateRetries = 0) =>
        /\ u2.mUpdateRetries = 0
        /\ u2.mLinkStatus = LS_BROKEN
  /\ ~DecodeFails(u, files) => u2.mUpdateRetries = u.mUpdateRetries
  /\ (u.mLinkStatus = LS_ON /\ u2.mLinkStatus = LS_BROKEN) =>
        \/ DecodeFails(u, files) /\ u.mUpdateRetries = 0
        \/ ~files[u.mFilename].exists

\* C2 (amended): each decode failure with retries left takes one retry and
\* leaves the link on; a decode failure with no retry left breaks the link;
\* nothing else changes the counter; and the link breaks only through a
\* decode failure with no retry left or through a missing file, which breaks
\* it at once whatever the counter holds.
RetriesCountDown ==
  [][ /\ IsUpdateStep => RetryRule(sBitmapList[iter], sBitmapList'[iter])
      /\ (IsConstructStep /\ called' # << >>) => RetryRule(called'[1], unit'[1])
      /\ \A k \in 1..Len(sBitmapList), j \in 1..Len(sBitmapList') :
            ( /\ sBitmapList'[j].mTrackingID = sBitmapList[k].mTrackingID
              /\ ~(IsUpdateStep /\ iter = k) ) =>
              /\ sBitmapList'[j].mUpdateRetries = sBitmapList[k].mUpdateRetries
              /\ sBitmapList'[j].mLinkStatus = sBitmapList[k].mLinkStatus ]_vars

\* C2 as stated: a link breaks only at a decode failure with no retry left
BrokenOnlyAtZero ==
  [][ ( /\ IsUpdateStep
        /\ sBitmapList[iter].mLinkStatus = LS_ON
        /\ sBitmapList'[iter].mLinkStatus = LS_BROKEN ) =>
        (DecodeFails(sBitmapList[iter], files) /\ sBitmapList[iter].mUpdateRetries = 0) ]_vars

\* C2 happens: a decode failed on a unit with no retry left, and broke its link
RetriesExhausted ==
  /\ pc = "upd"
  /\ called # << >>
  /\ path = "failed"
  /\ called[1].mLinkStatus = LS_ON
  /\ called[1].mUpdateRetries = 0
  /\ sBitmapList[iter - 1].mLinkStatus = LS_BROKEN

\* C5: the non-null mWorldID of a live unit is in gTextureList; it leaves
\* gTextureList in the step that destroys the unit or gives it a newer id,
\* and an id that has left is never registered again.
PublishedIsRegistered ==
  /\ [](\A u \in LiveUnits : u.mWorldID # LLUUID_null => u.mWorldID \in gTextureList)
  /\ [][ /\ \A u \in LiveUnits :
              u.mWorldID # LLUUID_null =>
                \/ \E u2 \in LiveUnits' : /\ u2.mTrackingID = u.mTrackingID
                                          /\ u2.mWorldID = u.mWorldID
                \/ u.mWorldID \notin gTextureList'
         /\ \A id \in 1..(nextID - 1) :
              id \notin gTextureList => id \notin gTextureList' ]_vars

\* C5 happens: delUnit has destroyed a unit and taken its texture out of
\* gTextureList
UnitDestroyed ==
  /\ pc = "idle"
  /\ freed # {}
  /\ \A id \in freed : id \notin gTextureList

\* C6: the timer is stopped all through doUpdates and addUnit's loop and is
\* started whenever neither is running; a pass begins only when neither is
\* running, so passes and additions never overlap.
OnePassAtATime ==
  /\ [](pc # "idle" => ~sTimerStarted)
  /\ [](pc = "idle" => sTimerStarted)
  /\ [][ /\ pc' # pc => (pc = "idle" \/ pc' = "idle")
         /\ (pc' = "upd" /\ pc # "upd") => (pc = "idle" /\ iter' = 1) ]_vars

\* C6 happens: a pass over two units is under way, begun by a tick after
\* addUnit returned
PassInFlight ==
  /\ pc = "upd"
  /\ iter = 2
  /\ Len(sBitmapList) >= 2
  /\ ~sTimerStarted

\* C7: the constructed unit is valid exactly when its extension is known, its
\* file exists and the first decode succeeds; addUnit appends it at the end of
\* sBitmapList exactly when it is valid and changes the list in no other way;
\* every listed unit is valid with a non-null mWorldID, and none comes from
\* the gif file or the missing file.
OnlyValidUnitsListed ==
  /\ [](\A k \in 1..Len(sBitmapList) :
          /\ sBitmapList[k].mValid
          /\ sBitmapList[k].mWorldID # LLUUID_null
          /\ sBitmapList[k].mExtension # ET_UNSET
          /\ sBitmapList[k].mFilename \notin {FileGif, FileGone})
  /\ [][ /\ IsConstructStep =>
              ( unit'[1].mValid <=>
                  /\ ExtensionOf(Head(picked).exten) # ET_UNSET
                  /\ files[Head(picked)].exists
                  /\ decodeBitmap(ExtensionOf(Head(picked).exten),
                                  files[Head(picked)].kind) )
         /\ IsDisposeStep =>
              sBitmapList' = IF unit[1].mValid THEN Append(sBitmapList, unit[1])
                                               ELSE sBitmapList
         /\ (pc = "add" /\ ~IsDisposeStep) => sBitmapList' = sBitmapList ]_vars

\* C7 happens: addUnit holds the invalid unit it built from the gif file,
\* after it appended a valid one
InvalidUnitHeld ==
  /\ pc = "add"
  /\ unit # << >>
  /\ ~unit[1].mValid
  /\ unit[1].mFilename = FileGif
  /\ sBitmapList # << >>

\* C8 (amended): a missing file and a decode failure with no retry left break
\* the link, and updateSelf on a broken link attempts nothing; an unknown
\* extension leaves the link on and the unit invalid without a texture.
UnrecoverableErrors ==
  JustCalled =>
    /\ path = "noext" =>
          /\ LastCalled.mLinkStatus = LS_ON
          /\ ~LastCalled.mValid
          /\ LastCalled.mWorldID = LLUUID_null
    /\ path = "missing" => LastCalled.mLinkStatus = LS_BROKEN
    /\ (path = "failed" /\ called[1].mUpdateRetries = 0) =>
          LastCalled.mLinkStatus = LS_BROKEN
    /\ (called # << >> /\ called[1].mLinkStatus = LS_BROKEN) =>
          /\ path = "broken"
          /\ LastCalled = called[1]
          /\ ~ret

\* C8 as stated: all three errors, the unknown extension too, break the link
AllThreeBreakLink ==
  JustCalled =>
    /\ path = "noext" => LastCalled.mLinkStatus = LS_BROKEN
    /\ path = "missing" => LastCalled.mLinkStatus = LS_BROKEN
    /\ (path = "failed" /\ called[1].mUpdateRetries = 0) =>
          LastCalled.mLinkStatus = LS_BROKEN

\* C8 happens: the constructor has returned on an unknown extension
UnknownExtensionSeen ==
  /\ pc = "add"
  /\ unit # << >>
  /\ path = "noext"
  /\ unit[1].mFilename = FileGif

\* the walk of one category ends at a slot that holds old_id on a region
\* getTexIndex has no mapping for
StopsAt(type, wi, si, old_id) ==
  /\ layerID[type][wi][si] = old_id
  /\ getTexIndex(type, WornList(type)[wi].slots[si]) = TEX_NUM_INDICES

\* the walk of the slot's category gets to the slot and past its mapping test
Reached(type, wi, si, old_id) ==
  /\ \A wj \in 1..wi : ~WornList(type)[wj].null
  /\ \A wj \in 1..wi : \A sj \in 1..Len(WornList(type)[wj].slots) :
        (wj < wi \/ sj <= si) => ~StopsAt(type, wj, sj, old_id)

\* the step takes every face and sculpt from old_id to new_id and leaves the
\* other faces and sculpts alone
PrimsFollow(old_id, new_id) ==
  /\ \A o \in ObjectIds : \A f \in 1..Len(faceTex[o]) :
        faceTex'[o][f] = IF faceTex[o][f] = old_id THEN new_id ELSE faceTex[o][f]
  /\ \A o \in ObjectIds :
        sculptID'[o] = IF sculptID[o] = old_id THEN new_id ELSE sculptID[o]

\* the step takes every layer slot from old_id to new_id
AllLayersFollow(old_id, new_id) ==
  \A t \in WearableTypes : \A wi \in 1..Len(layerID[t]) : \A si \in 1..Len(layerID[t][wi]) :
     layerID'[t][wi][si] =
        IF layerID[t][wi][si] = old_id THEN new_id ELSE layerID[t][wi][si]

\* the step takes the layer slots its walk reaches from old_id to new_id and
\* leaves the other slots alone
ReachedLayersFollow(old_id, new_id) ==
  \A t \in WearableTypes : \A wi \in 1..Len(layerID[t]) : \A si \in 1..Len(layerID[t][wi]) :
     layerID'[t][wi][si] =
        IF layerID[t][wi][si] = old_id /\ Reached(t, wi, si, old_id)
          THEN new_id ELSE layerID[t][wi][si]

\* the unit a delUnit step destroys
Deleted == CHOOSE u \in LiveUnits : u \notin LiveUnits'

OneRebakePerPass ==
  [][ /\ (pc = "idle" /\ pc' = "upd") => (bakes' = 0 /\ ~layerSet')
      /\ (pc = "upd" /\ pc' = "upd") => bakes' = 0
      /\ IsUpdateStep => (layerSet' <=> (layerSet \/ layerID' # layerID))
      /\ (pc = "upd" /\ pc' = "idle") =>
            /\ layerID' = layerID
            /\ bakes' = IF layerSet THEN 1 ELSE 0 ]_vars

\* C4 happens: a pass has ended with its one rebake, both units having
\* published a new texture since the start
PassRebakedOnce ==
  /\ pc = "idle"
  /\ Len(sBitmapList) = 2
  /\ sBitmapList[1].mWorldID > WorldIds
  /\ sBitmapList[2].mWorldID > WorldIds
  /\ layerSet
  /\ bakes = 1

\* what the claim and its amendment share: delUnit takes the units with the
\* given tracking id, and no other, out of the list, in place; the texture of
\* the destroyed unit leaves gTextureList; one rebake follows at once if a
\* layer slot was retargeted; a call that finds no unit changes nothing.
DelUnitRemoves ==
  /\ IsDelStep =>
       /\ \E t \in ListedIds :
            sBitmapList' = SelectSeq(sBitmapList, LAMBDA u : u.mTrackingID # t)
       /\ Deleted.mWorldID \notin gTextureList'
       /\ gTextureList' = gTextureList \ {Deleted.mWorldID}
       /\ bakes' = IF layerID' # layerID THEN 1 ELSE 0
       /\ ~sNeedsRebake'
  /\ (pc = "idle" /\ pc' = "idle" /\ sBitmapList' = sBitmapList) =>
       /\ gTextureList' = gTextureList
       /\ faceTex' = faceTex
       /\ sculptID' = sculptID
       /\ layerID' = layerID
       /\ bakes' = 0 \/ bakes' = bakes

OneUpdateForFaces(old_id, new_id) ==
  \A o \in ObjectIds :
     /\ \A f \in 1..Len(faceTex[o]) : faceTex[o][f] = old_id => faceTex'[o][f] = new_id
     /\ teUpdates'[o] = IF \E f \in 1..Len(faceTex[o]) : faceTex[o][f] = old_id
                          THEN 1 ELSE 0

\* C10: in the replaceIDs call of a successful later updateSelf, and in the
\* one of a unit's destruction, every face bound to the old id is rebound to
\* the new one, and an object gets exactly one sendTEUpdate if one of its
\* faces was rebound and none if not.
OneUpdatePerObject ==
  [][ /\ (IsUpdateStep /\ path' = "decoded") =>
            OneUpdateForFaces(sBitmapList[iter].mWorldID, sBitmapList'[iter].mWorldID)
      /\ IsDelStep => OneUpdateForFaces(Deleted.mWorldID, IMG_DEFAULT) ]_vars

\* C10 happens: both faces of the first object held the old id, both hold
\* the new one, and the object got one sendTEUpdate
TwoFacesOneUpdate ==
  /\ pc = "upd"
  /\ called # << >>
  /\ path = "decoded"
  /\ called[1].mWorldID # LLUUID_null
  /\ faceTex[1][1] = sBitmapList[iter - 1].mWorldID
  /\ faceTex[1][2] = sBitmapList[iter - 1].mWorldID
  /\ teUpdates[1] = 1

\* the consumers' ids in a value of the globals
Bindings(h) == << h.faceTex, h.sculptID, h.layerID >>

\* C11: replaceIDs(X, X) changes nothing for any id X: faces, sculpts, layer
\* slots, sendTEUpdate calls and sNeedsRebake are as before the call.
SameIdIsNoOp ==
  \A X \in PropIds : replaceIDs(Heap, X, X) = Heap

\* C11 happens: an id sits on both faces of the first object, on the sculpt
\* and on the shirt's mapped slot while no rebake is pending, after a call
\* that changed nothing
SameIdInUse ==
  /\ \E X \in 1..MaxLocal :
        /\ faceTex[1][1] = X
        /\ faceTex[1][2] = X
        /\ sculptID[3] = X
        /\ layerID["WT_SHIRT"][1][2] = X
  /\ ~sNeedsRebake
  /\ bakes = 1
  /\ teUpdates = NoUpdates

\* some face, sculpt or layer slot holds id
Referenced(h, id) ==
  \/ \E ref \in FaceRefs : h.faceTex[ref[2]][ref[3]] = id
  \/ \E ref \in SculptRefs : h.sculptID[ref[2]] = id
  \/ \E t \in WearableTypes : \E w \in 1..Len(h.layerID[t]) :
        \E s \in 1..Len(h.layerID[t][w]) : h.layerID[t][w][s] = id

\* replaceIDs(old_id, new_id) and then replaceIDs(new_id, old_id)
RoundTrip(h, old_id, new_id) ==
  replaceIDs(replaceIDs(h, old_id, new_id), new_id, old_id)

\* C12 as stated: for any two different ids and any consumers, the two calls
\* in a row give back the faces, sculpts and layer slots they started from.
RoundTripRestoresAlways ==
  \A old_id \in PropIds, new_id \in PropIds :
      old_id # new_id
        => Bindings(RoundTrip(Heap, old_id, new_id)) = Bindings(Heap)

\* C12: replaceIDs(old, new) followed by replaceIDs(new, old) gives back the
\* faces, sculpts and layer slots it started from when old and new differ,
\* neither is IMG_DEFAULT and no face, sculpt or layer slot held new before.
RoundTripRestores ==
  \A old_id \in PropIds, new_id \in PropIds :
      /\ old_id # new_id
      /\ old_id # IMG_DEFAULT
      /\ new_id # IMG_DEFAULT
      /\ ~Referenced(Heap, new_id)
      => Bindings(RoundTrip(Heap, old_id, new_id)) = Bindings(Heap)

\* C12 happens: after a call that retargeted a face and a layer slot, an id
\* sits on a face, the sculpt and the shirt's mapped slot, another id is on
\* no consumer, and replaceIDs from the one to the other moves all three
RoundTripMoves ==
  /\ teUpdates[1] = 1
  /\ layerSet
  /\ \E old_id \in 1..MaxLocal, new_id \in 1..MaxLocal :
        /\ old_id # new_id
        /\ ~Referenced(Heap, new_id)
        /\ faceTex[1][1] = old_id
        /\ sculptID[3] = old_id
        /\ layerID["WT_SHIRT"][1][2] = old_id
        /\ LET h == replaceIDs(Heap, old_id, new_id)
           IN /\ h.faceTex[1][1] = new_id
              /\ h.sculptID[3] = new_id
              /\ h.layerID["WT_SHIRT"][1][2] = new_id

\* the layer slots: category, worn instance, slot
LayerSlots ==
  { <<t, wi, si>> \in {"WT_PANTS", "WT_SHIRT"} \X (1..2) \X (1..2) :
      wi <= Len(WornList(t)) /\ si <= Len(WornList(t)[wi].slots) }

NoLayerOnDefault ==
  \A slot \in LayerSlots : layerID[slot[1]][slot[2]][slot[3]] # IMG_DEFAULT

\* C13: no layer slot ever holds IMG_DEFAULT when none did at the start; the
\* replaceIDs(mWorldID, IMG_DEFAULT) of a delUnit takes the layer slots it
\* changes to IMG_DEFAULT_AVATAR and the faces and sculpts that held the id
\* to IMG_DEFAULT.
LayersNeverOnDefault ==
  /\ []NoLayerOnDefault
  /\ [][ IsDelStep =>
           /\ \A slot \in LayerSlots :
                layerID'[slot[1]][slot[2]][slot[3]] # layerID[slot[1]][slot[2]][slot[3]]
                  => /\ layerID[slot[1]][slot[2]][slot[3]] = Deleted.mWorldID
                     /\ layerID'[slot[1]][slot[2]][slot[3]] = IMG_DEFAULT_AVATAR
           /\ PrimsFollow(Deleted.mWorldID, IMG_DEFAULT) ]_vars

\* C13 happens: delUnit has destroyed the first unit, whose texture the second
\* face of the first object and the shirt's mapped slot held; the face is on
\* IMG_DEFAULT now and the slot on IMG_DEFAULT_AVATAR
LayerWentToAvatarDefault ==
  /\ pc = "idle"
  /\ freed = {FirstAdded.u.mWorldID}
  /\ Len(sBitmapList) = 1
  /\ sBitmapList[1].mTrackingID = SecondAdded.u.mTrackingID
  /\ layerSet
  /\ layerID["WT_SHIRT"][1][2] = IMG_DEFAULT_AVATAR
  /\ teUpdates[1] = 1
  /\ faceTex[1][2] = IMG_DEFAULT

\* the slot's pair of category and baked region has a mapping in getTexIndex
Mapped(slot) ==
  getTexIndex(slot[1], WornList(slot[1])[slot[2]].slots[slot[3]]) # TEX_NUM_INDICES

\* no worn instance of the slot's category up to the slot's own is null
NoNullBefore(slot) == \A wj \in 1..slot[2] : ~WornList(slot[1])[wj].null

\* C14 as stated: a slot that holds old_id on an unmapped pair is skipped and
\* the walk goes on, so that replaceIDs(old_id, new_id) retargets every slot
\* that holds old_id on a mapped pair, the ones after an unmapped slot too.
UnmappedSlotIsSkipped ==
  \A old_id \in PropIds, new_id \in PropIds :
     old_id # new_id =>
       \A slot \in LayerSlots :
          /\ layerID[slot[1]][slot[2]][slot[3]] = old_id
          /\ Mapped(slot)
          /\ NoNullBefore(slot)
          => replaceIDs(Heap, old_id, new_id).layerID[slot[1]][slot[2]][slot[3]]
               = LayerIdFor(new_id)

\* C15: a null wearable ends the walk of its own category only: in a
\* replaceIDs(old_id, new_id) that meets the null pants entry, the pants slots
\* keep their ids, and every face and sculpt that held old_id and every slot
\* of the shirt, walked after the pants, that held it and that the walk
\* reaches are retargeted.
NullWearableEndsItsCategory ==
  \A old_id \in PropIds, new_id \in PropIds :
     old_id # new_id =>
       LET h == replaceIDs(Heap, old_id, new_id)
       IN /\ h.layerID["WT_PANTS"] = layerID["WT_PANTS"]
          /\ \A ref \in FaceRefs :
               h.faceTex[ref[2]][ref[3]] =
                 IF faceTex[ref[2]][ref[3]] = old_id THEN new_id
                 ELSE faceTex[ref[2]][ref[3]]
          /\ \A ref \in SculptRefs :
               h.sculptID[ref[2]] =
                 IF sculptID[ref[2]] = old_id THEN new_id ELSE sculptID[ref[2]]
          /\ \A si \in 1..2 :
               h.layerID["WT_SHIRT"][1][si] =
                 IF layerID["WT_SHIRT"][1][si] = old_id /\ Reached("WT_SHIRT", 1, si, old_id)
                   THEN LayerIdFor(new_id) ELSE layerID["WT_SHIRT"][1][si]

\* C15 happens: a call has retargeted faces and a layer slot; both faces, the
\* sculpt and the shirt's mapped slot are on one id, and the pants slot behind
\* the null entry is on another that no other consumer holds any more
NullWearableMet ==
  /\ WornList("WT_PANTS")[1].null
  /\ teUpdates[1] = 1
  /\ layerSet
  /\ \E old_id \in 1..MaxLocal, new_id \in 1..MaxLocal :
        /\ old_id # new_id
        /\ layerID["WT_PANTS"][2][1] = old_id
        /\ faceTex[1][1] = new_id
        /\ faceTex[1][2] = new_id
        /\ sculptID[3] = new_id
        /\ layerID["WT_SHIRT"][1][1] # old_id
        /\ layerID["WT_SHIRT"][1][2] = new_id

\* C16 as stated: an updateSelf call that gets to decodeBitmap has it succeed
\* exactly when the decoder of the unit's own format accepts the file; the
\* decoder of another format is never what makes it succeed.
DecodesWithOwnFormatOnly ==
  [][ (IsUpdateStep /\ path' \in {"decoded", "failed", "broken"}) =>
        (path' = "decoded" <=>
           DecoderAccepts(sBitmapList[iter].mExtension,
                          files[sBitmapList[iter].mFilename].kind)) ]_vars

\* every id handed out so far is below the generator's next one
IdsAreBehindTheGenerator ==
  /\ \A u \in LiveUnits : u.mTrackingID < nextID /\ u.mWorldID < nextID
  /\ \A id \in gTextureList : id < nextID

\* C17: a unit's mWorldID is null when the constructor returns without a
\* successful decode and changes in no updateSelf call that does not decode;
\* every successful decode gives the unit an id the generator had not handed
\* out before, which no unit has published; no updateSelf call changes
\* mTrackingID or mFilename.
WorldIdIsFresh ==
  /\ []IdsAreBehindTheGenerator
  /\ [][ /\ nextID' >= nextID
         /\ IsConstructStep =>
              unit'[1].mWorldID = IF path' = "decoded" THEN nextID' - 1 ELSE LLUUID_null
         /\ IsConstructStep /\ path' = "decoded" => unit'[1].mWorldID >= nextID
         /\ IsUpdateStep =>
              /\ sBitmapList'[iter].mTrackingID = sBitmapList[iter].mTrackingID
              /\ sBitmapList'[iter].mFilename = sBitmapList[iter].mFilename
              /\ sBitmapList'[iter].mWorldID =
                   IF path' = "decoded" THEN nextID ELSE sBitmapList[iter].mWorldID
              /\ path' = "decoded" => nextID' > nextID ]_vars

\* C17 happens: updateSelf has decoded the file of a listed unit again and
\* the unit has left the id it had for a new one
WorldIdRenewed ==
  /\ pc = "upd"
  /\ iter > 1
  /\ path = "decoded"
  /\ called[1].mWorldID # LLUUID_null
  /\ sBitmapList[iter - 1].mWorldID > called[1].mWorldID
  /\ sBitmapList[iter - 1].mWorldID \in gTextureList
  /\ sBitmapList[iter - 1].mTrackingID = called[1].mTrackingID
  /\ sBitmapList[iter - 1].mFilename = called[1].mFilename

\* doRebake bakes exactly when sNeedsRebake is set, leaves it unset and
\* leaves everything else alone; a second call right after it does nothing
RebakeOnce ==
  LET h == doRebake(Heap)
  IN /\ h.bakes = bakes + (IF sNeedsRebake THEN 1 ELSE 0)
     /\ ~h.needsRebake
     /\ h = [Heap EXCEPT !.bakes = h.bakes, !.needsRebake = FALSE]
     /\ doRebake(h) = h
     /\ doRebake(h).bakes - bakes <= 1

\* C18: doRebake calls forceBakeAllTextures exactly when sNeedsRebake is set
\* on entry and leaves sNeedsRebake unset; two calls in a row bake at most
\* once.
RebakeConsumesFlag ==
  /\ []RebakeOnce
  /\ [][ Rebake => /\ bakes' = (IF sNeedsRebake THEN 1 ELSE 0)
                   /\ ~sNeedsRebake'
                   /\ layerID' = layerID ]_vars

\* C18 happens: doRebake has found sNeedsRebake set and baked, and a second
\* call now would not bake
RebakedOnFlag ==
  /\ bakes = 1
  /\ ~sNeedsRebake
  /\ ~layerSet
  /\ doRebake(Heap).bakes = 1

\* the file of the unit updateSelf is about to be called on is in place and
\* carries the time stamp the unit has recorded
StampIsCurrent ==
  /\ sBitmapList[iter].mLinkStatus = LS_ON
  /\ files[sBitmapList[iter].mFilename].exists
  /\ asctime(files[sBitmapList[iter].mFilename].mtime) = sBitmapList[iter].mLastModified

\* C19: updateSelf on a unit with mLinkStatus LS_ON whose file exists with the
\* recorded time stamp returns false without decoding and changes nothing:
\* not the unit (mWorldID, mLastModified, mUpdateRetries, mLinkStatus), not
\* gTextureList, not a face, sculpt or layer slot, not sNeedsRebake; it sends
\* no sendTEUpdate and frees no texture.
UnchangedFileIsNoOp ==
  [][ (IsUpdateStep /\ StampIsCurrent) =>
        /\ ret' = FALSE
        /\ path' = "unchanged"
        /\ sBitmapList' = sBitmapList
        /\ gTextureList' = gTextureList
        /\ nextID' = nextID
        /\ faceTex' = faceTex
        /\ sculptID' = sculptID
        /\ layerID' = layerID
        /\ sNeedsRebake' = sNeedsRebake
        /\ teUpdates' = NoUpdates
        /\ freed' = {} ]_vars

\* C19 happens: updateSelf has returned from a unit whose file carries the
\* recorded time stamp and whose texture a face and the shirt's mapped slot
\* hold
UnchangedFileSeen ==
  /\ pc = "upd"
  /\ iter > 1
  /\ path = "unchanged"
  /\ ~ret
  /\ sBitmapList[iter - 1] = called[1]
  /\ faceTex[1][1] = called[1].mWorldID
  /\ layerID["WT_SHIRT"][1][2] = called[1].mWorldID

\* a refresh is between two of its statement groups
RefreshUnderWay == pc \in {"prims", "sculpts", "layers", "del"}

\* the textures of the old and of the new id are both in gTextureList
BothRegistered ==
  RefreshUnderWay =>
    /\ RefreshOld \in gTextureList
    /\ RefreshUnit.mWorldID \in gTextureList
    /\ RefreshUnit.mWorldID # RefreshOld

\* the step changes a face, sculpt or layer slot only from old_id to new_id
OnlyFromOldToNew(old_id, new_id) ==
  /\ \A o \in ObjectIds : \A f \in 1..Len(faceTex[o]) :
        faceTex'[o][f] # faceTex[o][f] => faceTex[o][f] = old_id /\ faceTex'[o][f] = new_id
  /\ \A o \in ObjectIds :
        sculptID'[o] # sculptID[o] => sculptID[o] = old_id /\ sculptID'[o] = new_id
  /\ \A slot \in LayerSlots :
        layerID'[slot[1]][slot[2]][slot[3]] # layerID[slot[1]][slot[2]][slot[3]]
          => /\ layerID[slot[1]][slot[2]][slot[3]] = old_id
             /\ layerID'[slot[1]][slot[2]][slot[3]] = new_id

\* C20: a successful updateSelf(false) first generates the new id and puts
\* its texture into gTextureList, then takes faces, sculpts and layer slots
\* from the old id to the new one, and takes the old texture out last; between
\* any two of these steps both textures are in gTextureList and a face, sculpt
\* or layer slot that held the old id holds the old or the new one.
RefreshKeepsConsumersRegistered ==
  /\ []BothRegistered
  /\ [][ /\ (pc = "idle" /\ pc' = "prims") =>
               /\ RefreshUnit'.mWorldID \notin gTextureList
               /\ faceTex' = faceTex /\ sculptID' = sculptID /\ layerID' = layerID
         /\ (RefreshUnderWay /\ pc' # "idle") =>
               /\ gTextureList' = gTextureList
               /\ OnlyFromOldToNew(RefreshOld, RefreshUnit.mWorldID)
         /\ (RefreshUnderWay /\ pc' = "idle") =>
               /\ pc = "del"
               /\ gTextureList' = gTextureList \ {RefreshOld}
               /\ faceTex' = faceTex /\ sculptID' = sculptID /\ layerID' = layerID ]_vars

\* C20 happens: the refresh has retargeted a face, the sculpt and the shirt's
\* mapped slot and has yet to take the old texture out
RefreshBeforeDelete ==
  /\ pc = "del"
  /\ RefreshOld \in gTextureList
  /\ faceTex[1][1] = RefreshUnit.mWorldID
  /\ sculptID[3] = RefreshUnit.mWorldID
  /\ layerID["WT_SHIRT"][1][2] = RefreshUnit.mWorldID
  /\ sNeedsRebake

\* the file of the k-th listed unit is in place, carries a time stamp other
\* than the one the unit has recorded, and holds nothing decodeBitmap accepts
\* for the unit's format
FileKeepsFailing(k) ==
  /\ files[sBitmapList[k].mFilename].exists
  /\ asctime(files[sBitmapList[k].mFilename].mtime) # sBitmapList[k].mLastModified
  /\ ~decodeBitmap(sBitmapList[k].mExtension, files[sBitmapList[k].mFilename].kind)

\* C21: if from some point on the file of the listed unit stays in place with
\* a time stamp other than the recorded one and with undecodable content,
\* then, the timer firing again and again, the unit's mLinkStatus becomes
\* LS_BROKEN.
FailingUnitBreaks ==
  <>[]FileKeepsFailing(1) => <>(sBitmapList[1].mLinkStatus = LS_BROKEN)

\* C21 happens: the last updateSelf call found the file failing with no retry
\* left and broke the link of a unit that had a texture published
BrokenByFailures ==
  /\ pc = "upd"
  /\ iter > 1
  /\ path = "failed"
  /\ called[1].mLinkStatus = LS_ON
  /\ called[1].mUpdateRetries = 0
  /\ sBitmapList[iter - 1].mLinkStatus = LS_BROKEN
  /\ FileKeepsFailing(iter - 1)

\* C22 as stated: no step of addUnit changes a face, a sculpt or a layer
\* slot, sends a sendTEUpdate or bakes, whether the unit it constructed is
\* kept or deleted.
AddUnitTouchesNoConsumer ==
  [][ (pc = "add" \/ pc' = "add") =>
        /\ faceTex' = faceTex
        /\ sculptID' = sculptID
        /\ layerID' = layerID
        /\ teUpdates' = NoUpdates
        /\ bakes' = 0 ]_vars

\* the id is a placeholder or that of a texture in gTextureList
Registered(id) == id \in {IMG_DEFAULT, IMG_DEFAULT_AVATAR} \cup gTextureList

FacesAndSculptsRegistered ==
  /\ \A o \in ObjectIds : \A f \in 1..Len(faceTex[o]) : Registered(faceTex[o][f])
  /\ \A o \in ObjectIds : Registered(sculptID[o])

NoRegistrationLeak ==
  pc = "idle" =>
    /\ gTextureList = { sBitmapList[k].mWorldID : k \in 1..Len(sBitmapList) }
    /\ Cardinality(gTextureList) = Len(sBitmapList)

\* C24 happens: between operations one unit is listed whose texture is not
\* the one it was added with, and no other texture is registered
OnlyCurrentTextureLeft ==
  /\ pc = "idle"
  /\ Len(sBitmapList) = 1
  /\ sBitmapList[1].mWorldID > sBitmapList[1].mTrackingID + 1
  /\ gTextureList = {sBitmapList[1].mWorldID}

\* C25: whenever neither addUnit nor a doUpdates pass is under way,
\* sNeedsRebake is false: each operation that sets it calls doRebake before
\* it returns, so the reset at the start of doUpdates never drops a request.
NoRebakeLeftPending == pc = "idle" => ~sNeedsRebake

\* C25 happens: an operation that changed a layer has returned after its
\* rebake
ReturnedAfterRebake ==
  pc = "idle" /\ layerSet /\ bakes = 1 /\ ~sNeedsRebake

\* the decode failures a unit with the link on has had, if every failure
\* took one retry and nothing gave one back
FailuresSoFar(u) == LL_LOCAL_UPDATE_RETRIES - u.mUpdateRetries

\* C26: mUpdateRetries of a listed unit (the same unit before and after a
\* step is the one with the same mTrackingID) never grows and stays within
\* 0..LL_LOCAL_UPDATE_RETRIES; only a failed decode changes it, by one, so a
\* decoded image, a missing file, an unchanged file and a broken link leave
\* it as it is; and a failed decode breaks the link exactly when
\* LL_LOCAL_UPDATE_RETRIES failures came before it, whatever was decoded in
\* between.
RetriesNeverRestored ==
  /\ [](\A k \in 1..Len(sBitmapList) :
          sBitmapList[k].mUpdateRetries \in 0..LL_LOCAL_UPDATE_RETRIES)
  /\ [][ \A k \in 1..Len(sBitmapList), j \in 1..Len(sBitmapList') :
           LET u == sBitmapList[k]
               v == sBitmapList'[j]
               failed == IsUpdateStep /\ iter = k /\ path' = "failed"
           IN v.mTrackingID = u.mTrackingID =>
                /\ v.mUpdateRetries <= u.mUpdateRetries
                /\ ~failed => v.mUpdateRetries = u.mUpdateRetries
                /\ failed =>
                     /\ u.mLinkStatus = LS_ON
                     /\ FailuresSoFar(v) =
                          IF FailuresSoFar(u) < LL_LOCAL_UPDATE_RETRIES
                            THEN FailuresSoFar(u) + 1
                            ELSE LL_LOCAL_UPDATE_RETRIES
                     /\ (v.mLinkStatus = LS_BROKEN) <=>
                          (FailuresSoFar(u) = LL_LOCAL_UPDATE_RETRIES) ]_vars

\* C26 happens: an image is decoded for a unit that has used up all its
\* retries, and the unit still has none, so that its next failure breaks it
DecodedWithNoRetryLeft ==
  /\ pc = "upd"
  /\ iter > 1
  /\ path = "decoded"
  /\ called[1].mUpdateRetries = 0
  /\ sBitmapList[iter - 1].mUpdateRetries = 0
  /\ sBitmapList[iter - 1].mLinkStatus = LS_ON
  /\ sBitmapList[iter - 1].mWorldID # called[1].mWorldID

\* scheme, host, port, path, query and fragment as the getters return them
Parts(p) == << p.mScheme, p.mHost, p.mPort, p.mPath, p.mQuery, p.mFragment >>

\* the parser as its constructor left it
Constructed(p) ==
  [p EXCEPT !.mScheme = << >>, !.mHost = << >>, !.mPort = << >>,
            !.mPath = << >>, !.mQuery = << >>, !.mFragment = << >>]

\* extractParts has been called once on the parser since its construction
ExtractedOnce(p) == p = extractParts(Constructed(p))

\* C27 as stated: a call of extractParts on a parser it has been called on
\* once leaves scheme, host, port, path, query and fragment as they were,
\* and with them what glue() builds and what test() returns.
ExtractPartsIsIdempotent ==
  [][ (ExtractedOnce(parser) /\ parser' = extractParts(parser)) =>
        /\ Parts(parser') = Parts(parser)
        /\ glue(parser', << >>) = glue(parser, << >>)
        /\ test(parser') = test(parser) ]_vars

=============================================================================
